---- MODULE Spec2Model ----
(***************************************************************************)
(* Model of presenters/chart_generator.py: the three chart builders        *)
(* generate_market_chart, generate_multi_market_chart and                  *)
(* generate_comparison_chart, seen as operations of a caller that owns the *)
(* row collections and the summary mappings and receives a figure, None or *)
(* an exception from every call.                                           *)
(*                                                                         *)
(* A Python dict that is only read by key (a row, a summary) is a function *)
(* whose DOMAIN is the set of keys present; a dict that is iterated or     *)
(* whose key order a statement speaks of (market_data, current_data,       *)
(* previous_data) is the sequence of its (key, value) entries in insertion *)
(* order.  A float is the exact rational <<numerator, denominator>> in     *)
(* lowest terms; a delivery date is its ISO string, ordered as the days of *)
(* Calendar; an axis label f"{date} S-{i}" is the tuple <<date, "S", i>>.  *)
(* A plotly figure is the sequence of its traces in the order of the       *)
(* add_trace calls; layout and styling are left out, except the colours,   *)
(* which are read from COLORS.  The calls into plotly are taken to         *)
(* succeed: an exception is one that the Python of this file raises.       *)
(***************************************************************************)
EXTENDS Integers, Sequences, FiniteSets, TLC

VARIABLES rows, market_data, current_data, previous_data, COLORS, result

vars == <<rows, market_data, current_data, previous_data, COLORS, result>>

(***************************************************************************)
(* Bounds of the model.                                                    *)
(***************************************************************************)
MaxRows == 2

MaxIndex == 2

(***************************************************************************)
(* Python values.                                                          *)
(***************************************************************************)
None == [kind |-> "None"]

KeyError == [kind |-> "KeyError"]

Figure(traces) == [kind |-> "Figure", traces |-> traces]

\* dict.get(key, default) of a dict read by key.
Get(d, key, default) == IF key \in DOMAIN d THEN d[key] ELSE default

\* dict.get(key, default) of a dict kept as its sequence of entries.
Lookup(entries, key, default) ==
  IF \E i \in 1..Len(entries) : entries[i].key = key
  THEN entries[CHOOSE i \in 1..Len(entries) : entries[i].key = key].value
  ELSE default

Keys(entries) == {entries[i].key : i \in 1..Len(entries)}

(***************************************************************************)
(* Floats, as exact rationals in lowest terms with a positive denominator. *)
(***************************************************************************)
Abs(n) == IF n < 0 THEN -n ELSE n

RECURSIVE Gcd(_, _)
Gcd(a, b) == IF b = 0 THEN a ELSE Gcd(b, a % b)

Norm(n, d) ==
  LET g == Gcd(Abs(n), Abs(d))
      s == IF d < 0 THEN -1 ELSE 1
  IN  <<(s * n) \div g, (s * d) \div g>>

Float(n) == <<n, 1>>

FMul(a, b) == Norm(a[1] * b[1], a[2] * b[2])

FDiv(a, b) == Norm(a[1] * b[2], a[2] * b[1])

(***************************************************************************)
(* The module-level colour table (lines 9-19).                             *)
(***************************************************************************)
ColorTable ==
  [DAM |-> "#2563eb", GDAM |-> "#16a34a", RTM |-> "#f59e0b",
   VOL |-> "rgba(148, 163, 184, 0.25)", BID_BUY |-> "#60a5fa",
   BID_SELL |-> "#fb7185", GRID |-> "#e2e8f0",
   TEXT_PRIMARY |-> "#0f172a", TEXT_SECONDARY |-> "#475569"]

(***************************************************************************)
(* The sort of lines 80 and 161:                                           *)
(*   sorted(rows, key=lambda x: (x['delivery_date'],                       *)
(*                  x.get('block_index', x.get('slot_index', 0))))         *)
(* sorted() is stable and returns a new list.                              *)
(***************************************************************************)
SortIndex(x) == Get(x, "block_index", Get(x, "slot_index", 0))

SortKey(x) == <<x.delivery_date, SortIndex(x)>>

\* The delivery dates of the model, in calendar order.
Calendar == <<"2024-01-01", "2024-01-02">>

DayNumber(date) == CHOOSE n \in 1..Len(Calendar) : Calendar[n] = date

\* Python's comparison date1 < date2.
DateLess(date1, date2) == DayNumber(date1) < DayNumber(date2)

\* Python's tuple comparison k1 < k2.
KeyLess(k1, k2) == DateLess(k1[1], k2[1]) \/ (k1[1] = k2[1] /\ k1[2] < k2[2])

\* x placed behind every element of the sorted s whose key is not greater.
Insert(s, x) ==
  LET before == {i \in 1..Len(s) : ~KeyLess(SortKey(x), SortKey(s[i]))}
      n == Cardinality(before)
  IN  SubSeq(s, 1, n) \o <<x>> \o SubSeq(s, n + 1, Len(s))

RECURSIVE Sorted(_)
Sorted(s) ==
  IF s = <<>> THEN <<>>
  ELSE Insert(Sorted(SubSeq(s, 1, Len(s) - 1)), s[Len(s)])

(***************************************************************************)
(* The per-row values of lines 81-90 and 163-167.                          *)
(***************************************************************************)
\* r['slot_index'] of line 82 raises KeyError on a row without the key.
LabelRaises(rs, is_quarterly) ==
  is_quarterly /\ \E i \in 1..Len(rs) : "slot_index" \notin DOMAIN rs[i]

Label(r, is_quarterly) ==
  IF is_quarterly THEN <<r.delivery_date, "S", r.slot_index>>
  ELSE <<r.delivery_date, "H", Get(r, "block_index", 0)>>

\* Volume with an hourly block counted as a full hour.
VolumeFullHour(r, is_quarterly) ==
  IF is_quarterly THEN FMul(Float(r.mcv_mw), <<1, 4>>)
  ELSE FDiv(Float(r.mcv_mw), Float(1))

Volume(r, is_quarterly) ==
  IF is_quarterly THEN FMul(Float(r.mcv_mw), <<1, 4>>)
  ELSE FDiv(Float(r.mcv_mw), Float(4))

Price(r) == FDiv(Float(r.price_avg), Float(1000))

\* The list comprehensions of lines 82-90 and 164-167.
Labels(rs, is_quarterly) == [i \in 1..Len(rs) |-> Label(rs[i], is_quarterly)]

Volumes(rs, is_quarterly) == [i \in 1..Len(rs) |-> Volume(rs[i], is_quarterly)]

Prices(rs) == [i \in 1..Len(rs) |-> Price(rs[i])]

BuyBids(rs) == [i \in 1..Len(rs) |-> rs[i].purchase_bid_mw]

SellBids(rs) == [i \in 1..Len(rs) |-> rs[i].sell_bid_mw]

(***************************************************************************)
(* generate_market_chart (lines 71-147).                                   *)
(***************************************************************************)
MarketChart(market_name, rs, is_quarterly, colors) ==
  IF rs = <<>> THEN None
  ELSE
    LET srt == Sorted(rs)
        x_vals == Labels(srt, is_quarterly)
        color == Get(colors, market_name, "#2563eb")
    IN  IF LabelRaises(srt, is_quarterly) THEN KeyError
        ELSE Figure(<<
          [type |-> "Bar", name |-> "Volume", x |-> x_vals,
           y |-> Volumes(srt, is_quarterly), color |-> colors["VOL"]],
          [type |-> "Scatter", name |-> "Buy Bids", x |-> x_vals,
           y |-> BuyBids(srt), color |-> colors["BID_BUY"]],
          [type |-> "Scatter", name |-> "Sell Bids", x |-> x_vals,
           y |-> SellBids(srt), color |-> colors["BID_SELL"]],
          [type |-> "Scatter", name |-> "Price", x |-> x_vals,
           y |-> Prices(srt), color |-> color] >>)

\* What rows.sort(key=...) in place of sorted() would leave in the list.
InPlaceSort(rs) == Sorted(rs)

\* What a call leaves in a list it was given: sorted() copies, and lines 80
\* and 161 rebind the local name only.
RowsAfterCall(rs) == rs

(***************************************************************************)
(* generate_multi_market_chart (lines 150-183).                            *)
(***************************************************************************)
\* One pass of the loop body (lines 160-175): the trace of one market.
MarketTrace(entry, is_quarterly, colors) ==
  LET srt == Sorted(entry.value)
  IN  [type |-> "Scatter", name |-> entry.key, x |-> Labels(srt, is_quarterly),
       y |-> Prices(srt), color |-> Get(colors, entry.key, "#666")]

HasRows(entry) == entry.value # <<>>

MultiMarketChart(md, is_quarterly, colors) ==
  IF md = <<>> THEN None
  ELSE
    LET kept == SelectSeq(md, HasRows)
    IN  IF \E i \in 1..Len(kept) : LabelRaises(kept[i].value, is_quarterly)
        THEN KeyError
        ELSE Figure([i \in 1..Len(kept) |->
                       MarketTrace(kept[i], is_quarterly, colors)])

(***************************************************************************)
(* generate_comparison_chart (lines 186-257).                              *)
(***************************************************************************)
markets == <<"DAM", "GDAM", "RTM">>

\* The condition of line 196.
HasVolume(curr) == Get(curr, "total_volume_gwh", 0) > 0

\* The replacement fields str.format finds in the hover templates of lines
\* 218 and 244, "%{x} {year_minus}: %{y:.2f} ...": the braces meant for
\* plotly are not doubled, as they are in the f-strings of lines 205 and 231.
HoverTemplateFields == <<"x", "year_minus", "y">>

\* template.format(**keywords) raises KeyError on a named field that has no
\* keyword argument.
FormatRaises(fields, keywords) ==
  \E i \in 1..Len(fields) : fields[i] \notin keywords

\* The four add_trace calls of lines 199-248 for one market, when the
\* templates format.
MarketBars(market, curr, prev, year, colors) ==
  LET color == Get(colors, market, None)
  IN  << [type |-> "Bar", name |-> <<market, year>>, x |-> <<market>>,
          y |-> <<Get(curr, "total_volume_gwh", 0)>>, color |-> color,
          opacity |-> <<1, 1>>, col |-> 1],
         [type |-> "Bar", name |-> <<market, year - 1>>, x |-> <<market>>,
          y |-> <<Get(prev, "total_volume_gwh", 0)>>, color |-> color,
          opacity |-> <<1, 4>>, col |-> 1],
         [type |-> "Bar", name |-> <<market>>, x |-> <<market>>,
          y |-> <<Get(curr, "twap", 0)>>, color |-> color,
          opacity |-> <<1, 1>>, col |-> 2],
         [type |-> "Bar", name |-> <<market, "Prev">>, x |-> <<market>>,
          y |-> <<Get(prev, "twap", 0)>>, color |-> color,
          opacity |-> <<1, 4>>, col |-> 2] >>

\* The loop of lines 192-248 over the first n markets.
RECURSIVE ComparisonTraces(_, _, _, _, _)
ComparisonTraces(n, cur, prev, year, colors) ==
  IF n = 0 THEN <<>>
  ELSE
    LET market == markets[n]
        curr == Lookup(cur, market, <<>>)
        prv == Lookup(prev, market, <<>>)
        before == ComparisonTraces(n - 1, cur, prev, year, colors)
    IN  IF HasVolume(curr)
        THEN before \o MarketBars(market, curr, prv, year, colors)
        ELSE before

ComparisonChart(cur, prev, year, colors) ==
  LET has_data == \E i \in 1..Len(markets) :
                    HasVolume(Lookup(cur, markets[i], <<>>))
      \* Line 218, reached for the first market that passes line 196.
      raises == has_data /\ FormatRaises(HoverTemplateFields, {"year_minus"})
  IN  IF raises THEN KeyError
      ELSE IF ~has_data THEN None
      ELSE Figure(ComparisonTraces(Len(markets), cur, prev, year, colors))

(***************************************************************************)
(* Inputs.  The n-th row a caller holds carries the n-th reading, so that  *)
(* the rows of one call are pairwise different; its date and its index     *)
(* fields are free.                                                        *)
(***************************************************************************)
Optional(key, values) == {<<>>} \cup {key :> v : v \in values}

Readings ==
  << [price_avg |-> 2500, mcv_mw |-> 120, purchase_bid_mw |-> 200, sell_bid_mw |-> 180],
     [price_avg |-> -1500, mcv_mw |-> 7, purchase_bid_mw |-> 0, sell_bid_mw |-> 35],
     [price_avg |-> 0, mcv_mw |-> 90, purchase_bid_mw |-> 310, sell_bid_mw |-> 5],
     [price_avg |-> 4000, mcv_mw |-> 0, purchase_bid_mw |-> 15, sell_bid_mw |-> 15] >>

Reading(n) == Readings[((n - 1) % Len(Readings)) + 1]

RowKeys(dates) ==
  { [delivery_date |-> d] @@ s @@ b :
      d \in dates,
      s \in Optional("slot_index", 1..MaxIndex),
      b \in Optional("block_index", 1..MaxIndex) }

SeqsUpTo(S, n) == UNION {[1..k -> S] : k \in 0..n}

RowLists(dates) ==
  { [i \in 1..Len(ks) |-> ks[i] @@ Reading(i)] :
      ks \in SeqsUpTo(RowKeys(dates), MaxRows) }

Entry(k, v) == [key |-> k, value |-> v]

\* A market with a colour of its own and one without.
MarketNames == {"DAM", "HPDAM"}

\* The rows of one delivery date, held by one market or shared out between
\* two; a market may be left with no rows.
MarketMappings ==
  LET lists == RowLists({Calendar[1]})
  IN  {<<>>}
      \cup {<<Entry(k, rs)>> : k \in MarketNames, rs \in lists}
      \cup UNION {
             { <<Entry("DAM", SubSeq(rs, 1, c)),
                 Entry("HPDAM", SubSeq(rs, c + 1, Len(rs)))>> : c \in 0..Len(rs) } :
             rs \in lists }

Summaries ==
  { <<>>, [total_volume_gwh |-> 0, twap |-> 5], [total_volume_gwh |-> 10, twap |-> 4] }

DistinctKeys(entries) == Cardinality(Keys(entries)) = Len(entries)

SummaryMappings(names) ==
  { s \in SeqsUpTo({Entry(k, v) : k \in names, v \in Summaries}, Cardinality(names)) :
      DistinctKeys(s) }

\* Current-year mappings: any key order, with or without a market that is
\* not one of the three.
CurrentMappings ==
  LET base == SummaryMappings({"DAM", "GDAM", "RTM"})
      other == <<Entry("HPDAM", [total_volume_gwh |-> 10, twap |-> 4])>>
  IN  base \cup {other \o s : s \in base}

\* Previous-year mappings: each of the three markets absent or present.
PreviousMappings ==
  LET names == <<"DAM", "GDAM", "RTM">>
  IN  { SelectSeq(s, LAMBDA e : e.value # <<>>) :
          s \in { [i \in 1..3 |-> Entry(names[i], v[i])] :
                    v \in [1..3 -> Summaries] } }

Years == {2025}

(***************************************************************************)
(* The caller: it holds the rows of one market, or the rows of several     *)
(* markets, or the summaries of two years, and calls the three builders in *)
(* any order, any number of times.                                         *)
(***************************************************************************)
Init ==
  /\ COLORS = ColorTable
  /\ result = [call |-> "none"]
  /\ \/ /\ rows \in RowLists({Calendar[n] : n \in 1..Len(Calendar)})
        /\ market_data = <<>>
        /\ current_data = <<>>
        /\ previous_data = <<>>
     \/ /\ rows = <<>>
        /\ market_data \in MarketMappings
        /\ current_data = <<>>
        /\ previous_data = <<>>
     \/ /\ rows = <<>>
        /\ market_data = <<>>
        /\ current_data \in CurrentMappings
        /\ previous_data \in PreviousMappings

GenerateMarketChart ==
  \E market_name \in MarketNames, is_quarterly \in BOOLEAN :
    /\ result' = [call |-> "generate_market_chart",
                  market_name |-> market_name,
                  is_quarterly |-> is_quarterly,
                  ret |-> MarketChart(market_name, rows, is_quarterly, COLORS)]
    /\ rows' = RowsAfterCall(rows)
    /\ UNCHANGED <<market_data, current_data, previous_data, COLORS>>

GenerateMultiMarketChart ==
  \E is_quarterly \in BOOLEAN :
    /\ result' = [call |-> "generate_multi_market_chart",
                  is_quarterly |-> is_quarterly,
                  ret |-> MultiMarketChart(market_data, is_quarterly, COLORS)]
    /\ market_data' = [i \in 1..Len(market_data) |->
                         Entry(market_data[i].key,
                               RowsAfterCall(market_data[i].value))]
    /\ UNCHANGED <<rows, current_data, previous_data, COLORS>>

GenerateComparisonChart ==
  \E year \in Years :
    /\ result' = [call |-> "generate_comparison_chart",
                  year |-> year,
                  ret |-> ComparisonChart(current_data, previous_data, year, COLORS)]
    /\ UNCHANGED <<rows, market_data, current_data, previous_data, COLORS>>

Next ==
  \/ GenerateMarketChart
  \/ GenerateMultiMarketChart
  \/ GenerateComparisonChart

Spec == Init /\ [][Next]_vars

(***************************************************************************)
(* The properties of the three builders.                                   *)
(***************************************************************************)
MarketCall == result.call = "generate_market_chart"

MultiCall == result.call = "generate_multi_market_chart"

ComparisonCall == result.call = "generate_comparison_chart"

Returned == result.call # "none" /\ result.ret.kind = "Figure"

\* The traces of the figure returned, none when no figure was returned.
Emitted == IF Returned THEN result.ret.traces ELSE <<>>

\* The row collection a series of the last call was built from.
InputOf(trace) ==
  IF MarketCall THEN rows ELSE Lookup(market_data, trace.name, <<>>)

\* The interval index of the specification: slot_index in quarterly mode,
\* block_index otherwise, 0 when that field is absent.
IntervalIndex(r, is_quarterly) ==
  Get(r, IF is_quarterly THEN "slot_index" ELSE "block_index", 0)

SpecLabel(r, is_quarterly) ==
  <<r.delivery_date, IF is_quarterly THEN "S" ELSE "H",
    IntervalIndex(r, is_quarterly)>>

\* (date, index) of one label or row not after that of another.
NotAfter(date1, index1, date2, index2) ==
  DateLess(date1, date2) \/ (date1 = date2 /\ index1 <= index2)

Ascending(x) ==
  \A i, j \in 1..Len(x) :
    i < j => NotAfter(x[i][1], x[i][3], x[j][1], x[j][3])

Bijections(n) ==
  {p \in [1..n -> 1..n] : \A i, j \in 1..n : p[i] = p[j] => i = j}

\* The rational q equals n / d.
IsRatio(q, n, d) == q[1] * d = n * q[2]

NoMarketHasRows ==
  \A i \in 1..Len(market_data) : market_data[i].value = <<>>

MarketsWithRows ==
  {market_data[i].key : i \in {k \in 1..Len(market_data) : market_data[k].value # <<>>}}

\* C1: generate_multi_market_chart returns None exactly when no market of
\* the mapping has a row: for the empty mapping and for a mapping whose row
\* collections are all empty, and for no other.
C1_NoneIffNoMarketHasRows ==
  MultiCall => (result.ret = None <=> NoMarketHasRows)

\* C2: in every series generate_market_chart or generate_multi_market_chart
\* returns, the points are in ascending order of (delivery_date, interval
\* index), the interval index being slot_index in quarterly mode and
\* block_index otherwise (0 when absent); the labels carry exactly that pair.
C2_OutputAscendingByIntervalIndex ==
  (MarketCall \/ MultiCall) =>
    \A t \in 1..Len(Emitted) : Ascending(Emitted[t].x)

\* C3: a row without its interval index never makes generate_market_chart or
\* generate_multi_market_chart raise; its label carries index 0 and it comes
\* before every row of the same delivery_date with a positive index.
C3_MissingIndexIsZeroAndFirst ==
  (MarketCall \/ MultiCall) =>
    /\ result.ret # KeyError
    /\ \A t \in 1..Len(Emitted) :
         LET x == Emitted[t].x
             rs == InputOf(Emitted[t])
             q == result.is_quarterly
         IN  /\ Cardinality({i \in 1..Len(x) : x[i][3] = 0})
                  = Cardinality({i \in 1..Len(rs) : IntervalIndex(rs[i], q) = 0})
             /\ \A i, j \in 1..Len(x) :
                  (x[i][1] = x[j][1] /\ x[i][3] = 0 /\ x[j][3] > 0) => i < j

\* C4: for every non-empty row collection generate_market_chart builds the
\* five sequences labels, volumes, prices, buy bids and sell bids, each as
\* long as the input, and position i of all five comes from one and the same
\* row (label of the row, mcv_mw / 4, price_avg / 1000, purchase_bid_mw,
\* sell_bid_mw), every input row being used exactly once.
C4_FiveAlignedSequences ==
  (MarketCall /\ rows # <<>>) =>
    /\ Returned
    /\ Len(Emitted) = 4
    /\ LET n == Len(rows)
           q == result.is_quarterly
           labels == Emitted[1].x
           volumes == Emitted[1].y
           buy_bids == Emitted[2].y
           sell_bids == Emitted[3].y
           prices == Emitted[4].y
       IN  /\ \A t \in 1..4 : Emitted[t].x = labels /\ Len(Emitted[t].y) = n
           /\ Len(labels) = n
           /\ \E p \in Bijections(n) :
                \A i \in 1..n :
                  LET r == rows[p[i]]
                  IN  /\ labels[i] = SpecLabel(r, q)
                      /\ IsRatio(volumes[i], r.mcv_mw, 4)
                      /\ IsRatio(prices[i], r.price_avg, 1000)
                      /\ buy_bids[i] = r.purchase_bid_mw
                      /\ sell_bids[i] = r.sell_bid_mw

\* The place in the series of the point made from row r (the rows of one
\* call have pairwise different prices).
PlaceOf(r, prices) ==
  CHOOSE k \in 1..Len(prices) : IsRatio(prices[k], r.price_avg, 1000)

PriceSeries(t) == IF MarketCall THEN Emitted[4] ELSE Emitted[t]

\* C5: the sort is stable: two rows of equal delivery_date and equal interval
\* index keep their input order in the output, and a collection already in
\* (delivery_date, interval index) order comes out in the order it went in.
C5_StableAndIdempotent ==
  ((MarketCall \/ MultiCall) /\ Returned) =>
    \A t \in 1..Len(Emitted) :
      LET prices == PriceSeries(t).y
          rs == InputOf(PriceSeries(t))
          q == result.is_quarterly
          sameKey(a, b) ==
            /\ a.delivery_date = b.delivery_date
            /\ IntervalIndex(a, q) = IntervalIndex(b, q)
          inOrder ==
            \A i, j \in 1..Len(rs) :
              i < j => NotAfter(rs[i].delivery_date, IntervalIndex(rs[i], q),
                                rs[j].delivery_date, IntervalIndex(rs[j], q))
      IN  /\ \A i, j \in 1..Len(rs) :
               (i < j /\ sameKey(rs[i], rs[j]))
                 => PlaceOf(rs[i], prices) < PlaceOf(rs[j], prices)
          /\ inOrder => \A i \in 1..Len(rs) : PlaceOf(rs[i], prices) = i

\* C6: generate_multi_market_chart emits one series for each market that has
\* rows and none for a market without: the names of the series are the
\* markets with rows, each once, no series is empty, and the series of a
\* market is what its rows alone give in generate_market_chart.
C6_OneSeriesPerMarketWithRows ==
  MultiCall =>
    /\ {Emitted[t].name : t \in 1..Len(Emitted)} = MarketsWithRows
    /\ Len(Emitted) = Cardinality(MarketsWithRows)
    /\ \A t \in 1..Len(Emitted) :
         LET own == Lookup(market_data, Emitted[t].name, <<>>)
             alone == MarketChart(Emitted[t].name, own, result.is_quarterly, COLORS)
         IN  /\ Len(Emitted[t].x) > 0
             /\ alone.kind = "Figure"
             /\ Emitted[t].x = alone.traces[4].x
             /\ Emitted[t].y = alone.traces[4].y

\* The markets of the comparison, in canonical order.
Canonical == <<"DAM", "GDAM", "RTM">>

\* Market m is in the current-year mapping with total_volume_gwh > 0.
CurrentVolumePositive(m) ==
  \E i \in 1..Len(current_data) :
    /\ current_data[i].key = m
    /\ "total_volume_gwh" \in DOMAIN current_data[i].value
    /\ current_data[i].value.total_volume_gwh > 0

HasBar(m) == \E t \in 1..Len(Emitted) : Emitted[t].x = <<m>>

\* C7: generate_comparison_chart has bars for a market of the canonical list
\* if and only if the current-year mapping holds it with total_volume_gwh > 0,
\* whatever the previous-year mapping holds for it.
C7_IncludedIffCurrentVolumePositive ==
  ComparisonCall =>
    \A k \in 1..Len(Canonical) :
      HasBar(Canonical[k]) <=> CurrentVolumePositive(Canonical[k])

Included == SelectSeq(Canonical, CurrentVolumePositive)

\* C8: generate_comparison_chart returns None exactly when no market of the
\* canonical list is included; otherwise the figure holds, for the included
\* markets in the order DAM, GDAM, RTM, four bars each: current volume,
\* previous volume, current price, previous price (0 for a value the mapping
\* lacks), and no bar of any other market.
C8_FourBarsPerMarketInCanonicalOrder ==
  ComparisonCall =>
    /\ result.ret = None <=> Included = <<>>
    /\ Len(Emitted) = 4 * Len(Included)
    /\ \A j \in 1..Len(Included) :
         LET m == Included[j]
             curr == Lookup(current_data, m, <<>>)
             prev == Lookup(previous_data, m, <<>>)
             bar(k) == Emitted[4 * (j - 1) + k]
         IN  /\ \A k \in 1..4 : bar(k).x = <<m>>
             /\ bar(1).y = <<curr.total_volume_gwh>>
             /\ bar(2).y = <<Get(prev, "total_volume_gwh", 0)>>
             /\ bar(3).y = <<Get(curr, "twap", 0)>>
             /\ bar(4).y = <<Get(prev, "twap", 0)>>

\* C9: the volume of a row is the same in both granularity modes: the
\* volumes generate_market_chart returns in one mode are those the other
\* mode computes, mcv_mw * 0.25 = mcv_mw / 4.0, and mcv_mw = 120 gives 30.
C9_VolumeSameInBothModes ==
  (MarketCall /\ Returned) =>
    LET volumes == Emitted[1].y
        srt == Sorted(rows)
    IN  \A i \in 1..Len(volumes) :
          /\ volumes[i] = Volume(srt[i], ~result.is_quarterly)
          /\ IsRatio(volumes[i], srt[i].mcv_mw, 4)
          /\ srt[i].mcv_mw = 120 => volumes[i] = <<30, 1>>

\* A non-quarterly chart of several rows, one of them with mcv_mw = 120 and
\* one whose quarter is not a whole number.
C9_Witness ==
  /\ MarketCall
  /\ Returned
  /\ ~result.is_quarterly
  /\ \E i, j \in 1..Len(Emitted[1].y) :
       Emitted[1].y[i] = <<30, 1>> /\ Emitted[1].y[j] = <<7, 4>>

SameArguments(r1, r2) ==
  /\ r1.call = r2.call
  /\ r1.call = "generate_market_chart" =>
       r1.market_name = r2.market_name /\ r1.is_quarterly = r2.is_quarterly
  /\ r1.call = "generate_multi_market_chart" => r1.is_quarterly = r2.is_quarterly
  /\ r1.call = "generate_comparison_chart" => r1.year = r2.year

\* C10: no call changes its inputs or shared state: the caller's rows, the
\* three mappings and COLORS are after every call what they were before it,
\* and a call repeated after any other calls returns what it returned before.
C10_CallsLeaveInputsUnchanged ==
  [][ /\ rows' = rows
      /\ market_data' = market_data
      /\ current_data' = current_data
      /\ previous_data' = previous_data
      /\ COLORS' = COLORS
      /\ SameArguments(result, result') => result'.ret = result.ret ]_vars

\* A chart was returned for rows the caller holds out of order, or for a
\* mapping with a market whose rows are out of order.
C10_Witness ==
  /\ Returned
  /\ \/ MarketCall /\ rows # Sorted(rows)
     \/ MultiCall /\ \E i \in 1..Len(market_data) :
                       market_data[i].value # Sorted(market_data[i].value)

====
